---- MODULE Spec2Model ----
(***************************************************************************)
(* Verification model of the uchat credential and session lifecycle:       *)
(*   backend/server/src/handler/user.rs   Register (CreateUser) and Login  *)
(*   shared/domain/src/post.rs            Headline and Message             *)
(* The query and crypto crates the handlers call are modelled from their   *)
(* contracts in the specification.                                         *)
(***************************************************************************)
EXTENDS Integers, Sequences, FiniteSets, TLC

\* ------------------------------------------------------------------ bounds
MaxReqs == 2
MaxClock == 1
MaxInputLen == 101
MaxNameLen == 31
MaxPostId == 2
MaxBatch == 3

\* ------------------------------------------------------------ value universe
Reqs == 1..MaxReqs
Handles == {"alice", "bob"}
Passwords == {"correct-horse", "hunter2"}

None == <<>>
Some(x) == <<x>>
IsSome(o) == o # <<>>
Unwrap(o) == o[1]

Ok(v) == [ok |-> TRUE, val |-> <<v>>, err |-> ""]
Err(e) == [ok |-> FALSE, val |-> <<>>, err |-> e]

VARIABLES
    state,          \* AppState: the process-wide signing keys and random source
    users,          \* storage: the users table
    sessions,       \* storage: the sessions table
    clock,          \* the wall clock read by Utc::now()
    req,            \* the requests in flight, one per slot
    text_kind,      \* the bounded text type being constructed
    raw,            \* the raw string handed to the constructor
    constructed,    \* the constructor's result
    user_in,        \* the User handed to to_public
    profile_out,    \* what to_public returned
    posts,          \* PostManager.posts, an IndexMap: entries in insertion order
    last,           \* the PostManager call made last, with what it returned
    tampered        \* whether an update function has changed a post's id

authVars == <<state, users, sessions, clock, req>>
textVars == <<text_kind, raw, constructed>>
publicVars == <<user_in, profile_out>>
postVars == <<posts, last, tampered>>
pureVars == <<textVars, publicVars, postVars>>
vars == <<state, users, sessions, clock, req, text_kind, raw, constructed,
          user_in, profile_out, posts, last, tampered>>

\* ------------------------------------------------------------ time
SecondsPerWeek == 7 * 24 * 60 * 60
Duration_weeks(n) == n * SecondsPerWeek
Utc_now == clock

\* ------------------------------------------------------------ uchat_crypto
\* the fresh random salt of one hash_password call: no two calls share one
FreshSalt(r) == <<"salt", r>>
\* hash_password: a salted one-way hash, serialized to its textual encoding.
Digest(password, salt) == <<"digest", password, salt>>
serialize_hash(h) == <<"$argon2id", h.salt, h.digest>>
hash_password(password, salt, primitive_ok) ==
    IF primitive_ok
    THEN Ok(serialize_hash([salt |-> salt, digest |-> Digest(password, salt)]))
    ELSE Err("HashingFailed")

deserialize_hash(stored) ==
    IF Len(stored) = 3 /\ stored[1] = "$argon2id"
    THEN Ok([salt |-> stored[2], digest |-> stored[3]])
    ELSE Err("CorruptHash")

verify_password(password, hash) ==
    IF Digest(password, hash.salt) = hash.digest
    THEN Ok("verified")
    ELSE Err("InvalidCredentials")

\* Session signer: a toy asymmetric scheme over bytes; the private exponent
\* is added on signing and the public one on verification (mod 256).
as_bytes(id) == <<id \div 256, id % 256>>
\* the random source after one signature drew from it
rng_next(rng) == (rng * 5 + 1) % 256
sign(keys, rng, message) ==
    [i \in 1..Len(message) |-> (message[i] + keys.private) % 256]
signature_verify(public, message, signature) ==
    /\ Len(signature) = Len(message)
    /\ \A i \in 1..Len(message) : (signature[i] + public) % 256 = message[i]

\* encode_base64: RFC 4648 base64 with padding, over a sequence of bytes.
B64Alphabet ==
    << "A","B","C","D","E","F","G","H","I","J","K","L","M","N","O","P",
       "Q","R","S","T","U","V","W","X","Y","Z","a","b","c","d","e","f",
       "g","h","i","j","k","l","m","n","o","p","q","r","s","t","u","v",
       "w","x","y","z","0","1","2","3","4","5","6","7","8","9","+","/" >>
B64Char(n) == B64Alphabet[n + 1]
B64Index(c) == (CHOOSE i \in 1..Len(B64Alphabet) : B64Alphabet[i] = c) - 1

RECURSIVE encode_base64(_)
encode_base64(bytes) ==
    IF Len(bytes) = 0 THEN <<>>
    ELSE IF Len(bytes) = 1 THEN
        LET n == bytes[1] * 65536
        IN << B64Char(n \div 262144), B64Char((n \div 4096) % 64), "=", "=" >>
    ELSE IF Len(bytes) = 2 THEN
        LET n == bytes[1] * 65536 + bytes[2] * 256
        IN << B64Char(n \div 262144), B64Char((n \div 4096) % 64),
              B64Char((n \div 64) % 64), "=" >>
    ELSE
        LET n == bytes[1] * 65536 + bytes[2] * 256 + bytes[3]
        IN << B64Char(n \div 262144), B64Char((n \div 4096) % 64),
              B64Char((n \div 64) % 64), B64Char(n % 64) >>
           \o encode_base64(SubSeq(bytes, 4, Len(bytes)))

RECURSIVE decode_base64(_)
decode_base64(text) ==
    IF Len(text) = 0 THEN <<>>
    ELSE
        LET pad == IF text[4] # "=" THEN 0 ELSE IF text[3] # "=" THEN 1 ELSE 2
            v(i) == IF text[i] = "=" THEN 0 ELSE B64Index(text[i])
            n == v(1) * 262144 + v(2) * 4096 + v(3) * 64 + v(4)
            three == << n \div 65536, (n \div 256) % 256, n % 256 >>
        IN SubSeq(three, 1, 3 - pad) \o decode_base64(SubSeq(text, 5, Len(text)))

\* ------------------------------------------------------------ uchat_query
\* Each storage call is one atomic unit; db_ok = FALSE is a storage failure.
UserOf(us, handle) == CHOOSE u \in us : u.handle = handle
HandleTaken(us, handle) == \E u \in us : u.handle = handle

\* The row's created_at column (the database's now) is read by neither
\* handler and is left out of the row.
user_new(us, password_hash, handle, now, db_ok) ==
    IF ~db_ok THEN [res |-> Err("StorageError"), users |-> us]
    ELSE IF HandleTaken(us, handle)
    THEN [res |-> Err("RegistrationFailed"), users |-> us]
    ELSE LET id == Cardinality(us) + 1
             row == [id |-> id, handle |-> handle, password_hash |-> password_hash,
                     display_name |-> None, email |-> None]
         IN [res |-> Ok(id), users |-> us \cup {row}]

get_password_hash(us, handle, db_ok) ==
    IF ~db_ok THEN Err("StorageError")
    ELSE IF ~HandleTaken(us, handle) THEN Err("UnknownHandle")
    ELSE Ok(UserOf(us, handle).password_hash)

user_find(us, handle, db_ok) ==
    IF ~db_ok THEN Err("StorageError")
    ELSE IF ~HandleTaken(us, handle) THEN Err("UnknownHandle")
    ELSE Ok(UserOf(us, handle))

session_new(sess, user_id, duration, fingerprint, now, db_ok) ==
    IF ~db_ok THEN [res |-> Err("StorageError"), sessions |-> sess]
    ELSE LET row == [id |-> Cardinality(sess) + 1, user_id |-> user_id,
                     expires_at |-> now + duration, created_at |-> now,
                     fingerprint |-> fingerprint]
         IN [res |-> Ok(row), sessions |-> sess \cup {row}]

\* ------------------------------------------------------------ handler/user.rs
SessionWeeks == 3

\* new_session handing back the user's existing session when there is one
new_session_reuse(st, sess, user_id, now, db_ok) ==
    LET fingerprint == "{}"
        session_duration == Duration_weeks(SessionWeeks)
        mine == {s \in sess : s.user_id = user_id}
        created == IF mine # {} /\ db_ok
                   THEN [res |-> Ok(CHOOSE s \in mine : TRUE), sessions |-> sess]
                   ELSE session_new(sess, user_id, session_duration, fingerprint,
                                    now, db_ok)
    IN IF ~created.res.ok
       THEN [res |-> Err(created.res.err), sessions |-> created.sessions,
             state |-> st]
       ELSE LET session == Unwrap(created.res.val)
                signature == sign(st.signing_keys, st.rng, as_bytes(session.id))
            IN [res |-> Ok([session |-> session,
                            signature |-> encode_base64(signature),
                            duration |-> session_duration]),
                sessions |-> created.sessions, state |-> st]

\* new_session signing the user's identifier in place of the session's
new_session_signs_user(st, sess, user_id, now, db_ok) ==
    LET session_duration == Duration_weeks(SessionWeeks)
        created == session_new(sess, user_id, session_duration, "{}", now, db_ok)
    IN IF ~created.res.ok
       THEN [res |-> Err(created.res.err), sessions |-> created.sessions,
             state |-> st]
       ELSE LET session == Unwrap(created.res.val)
                signature == sign(st.signing_keys, st.rng, as_bytes(user_id))
            IN [res |-> Ok([session |-> session,
                            signature |-> encode_base64(signature),
                            duration |-> session_duration]),
                sessions |-> created.sessions, state |-> st]

\* new_session calling storage a second time when the first call failed
new_session_retries(st, sess, user_id, now, db_ok) ==
    LET session_duration == Duration_weeks(SessionWeeks)
        first == session_new(sess, user_id, session_duration, "{}", now, db_ok)
        created == IF first.res.ok THEN first
                   ELSE session_new(sess, user_id, session_duration, "{}", now, TRUE)
        session == Unwrap(created.res.val)
        signature == sign(st.signing_keys, st.rng, as_bytes(session.id))
    IN [res |-> Ok([session |-> session, signature |-> encode_base64(signature),
                    duration |-> session_duration]),
        sessions |-> created.sessions, state |-> st]

\* new_session signing with the shared random source itself, not a clone
new_session_shared_rng(st, sess, user_id, now, db_ok) ==
    LET session_duration == Duration_weeks(SessionWeeks)
        created == session_new(sess, user_id, session_duration, "{}", now, db_ok)
    IN IF ~created.res.ok
       THEN [res |-> Err(created.res.err), sessions |-> created.sessions,
             state |-> st]
       ELSE LET session == Unwrap(created.res.val)
                signature == sign(st.signing_keys, st.rng, as_bytes(session.id))
            IN [res |-> Ok([session |-> session,
                            signature |-> encode_base64(signature),
                            duration |-> session_duration]),
                sessions |-> created.sessions,
                state |-> [st EXCEPT !.rng = rng_next(st.rng)]]

\* new_session, lines 29-50.  Signing draws from rng, the clone of line 43,
\* which is dropped on return: the AppState it was cloned from is handed
\* back as it was.
new_session(st, sess, user_id, now, db_ok) ==
    LET fingerprint == "{}"
        session_duration == Duration_weeks(SessionWeeks)
        created == session_new(sess, user_id, session_duration, fingerprint, now, db_ok)
    IN IF ~created.res.ok
       THEN [res |-> Err(created.res.err), sessions |-> created.sessions,
             state |-> st]
       ELSE LET session == Unwrap(created.res.val)
                rng == st.rng
                signature == sign(st.signing_keys, rng, as_bytes(session.id))
                rng_after == rng_next(rng)
                encoded == encode_base64(signature)
            IN [res |-> Ok([session |-> session, signature |-> encoded,
                            duration |-> session_duration]),
                sessions |-> created.sessions, state |-> st]

ZeroCalls == [create_user |-> 0, get_password_hash |-> 0, find_user |-> 0,
              create_session |-> 0]

IdleReq ==
    [kind |-> "", username |-> "", password |-> "", pc |-> "Idle", err |-> "",
     password_hash |-> None, hash |-> None, user_id |-> None, user |-> None,
     session |-> None, signature |-> None, duration |-> None, response |-> None,
     calls |-> ZeroCalls, passed |-> {}, prior |-> {}, after |-> {},
     responded_at |-> None]

Called(q, op) == [q EXCEPT !.calls[op] = @ + 1]
Passed(q, step) == [q EXCEPT !.passed = @ \cup {step}]
\* the error sending the request back to its first statement
Failed_restart(q, e) == [q EXCEPT !.pc = "Received", !.err = e]

Failed(q, e) == [q EXCEPT !.pc = "Errored", !.err = e]

\* The request arrives already deserialized: Received.  Slots fill in order,
\* and since handles and passwords are interchangeable names the first
\* request fixes which is which.
Receive(r, kind, username, password) ==
    /\ req[r].pc = "Idle"
    /\ \A i \in 1..(r - 1) : req[i].pc # "Idle"
    /\ r = 1 => username = "alice" /\ password = "correct-horse"
    /\ req' = [req EXCEPT ![r] =
                 [IdleReq EXCEPT !.kind = kind, !.username = username,
                                 !.password = password, !.pc = "Received",
                                 !.after = {i \in Reqs : req[i].pc = "Responded"}]]
    /\ UNCHANGED <<state, users, sessions, clock, pureVars>>

\* lines 61-63 with a rejected create_user taken for the existing user's id
RegisterCreateUser_ignores_reject(r, salt, primitive_ok, db_ok) ==
    /\ req[r].pc = "Received" /\ req[r].kind = "Register"
    /\ LET h == hash_password(req[r].password, salt, primitive_ok)
           out == user_new(users, Unwrap(h.val), req[r].username, Utc_now, db_ok)
           q == Called(Passed(req[r], "hash_password"), "create_user")
       IN IF ~h.ok
          THEN /\ req' = [req EXCEPT ![r] = Failed(@, h.err)]
               /\ users' = users
          ELSE /\ users' = out.users
               /\ req' = [req EXCEPT ![r] =
                            IF out.res.ok
                            THEN [Passed(q, "create_user") EXCEPT
                                     !.pc = "Stored",
                                     !.password_hash = h.val,
                                     !.user_id = out.res.val]
                            ELSE IF out.res.err = "RegistrationFailed"
                            THEN [q EXCEPT !.pc = "Stored",
                                           !.password_hash = h.val,
                                           !.user_id = Some(UserOf(users, q.username).id)]
                            ELSE Failed([q EXCEPT !.password_hash = h.val], out.res.err)]
    /\ UNCHANGED <<state, sessions, clock, pureVars>>

\* CreateUser::process_request, lines 61-63: the hash is computed locally and
\* handed to storage in the same step; a failed hash returns before the call.
RegisterCreateUser(r, salt, primitive_ok, db_ok) ==
    /\ req[r].pc = "Received" /\ req[r].kind = "Register"
    /\ LET h == hash_password(req[r].password, salt, primitive_ok)
           out == user_new(users, Unwrap(h.val), req[r].username, Utc_now, db_ok)
           q == Called(Passed(req[r], "hash_password"), "create_user")
       IN IF ~h.ok
          THEN /\ req' = [req EXCEPT ![r] = Failed(@, h.err)]
               /\ users' = users
          ELSE /\ users' = out.users
               /\ req' = [req EXCEPT ![r] =
                            IF out.res.ok
                            THEN [Passed(q, "create_user") EXCEPT
                                     !.pc = "Stored",
                                     !.password_hash = h.val,
                                     !.user_id = out.res.val]
                            ELSE Failed([q EXCEPT !.password_hash = h.val], out.res.err)]
    /\ UNCHANGED <<state, sessions, clock, pureVars>>

\* the call of new_session undoing create_user when it fails in a Register
IssueSession_rollback(r, from, db_ok) ==
    /\ req[r].pc = from
    /\ LET uid == Unwrap(req[r].user_id)
           out == new_session(state, sessions, uid, Utc_now, db_ok)
           q == [Called(req[r], "create_session") EXCEPT
                    !.prior = {s.id : s \in {t \in sessions : t.user_id = uid}}]
       IN /\ sessions' = out.sessions
          /\ state' = out.state
          /\ users' = IF ~out.res.ok /\ req[r].kind = "Register"
                      THEN {u \in users : u.id # uid}
                      ELSE users
          /\ req' = [req EXCEPT ![r] =
                       IF out.res.ok
                       THEN [Passed(q, "create_session") EXCEPT
                                !.pc = "SessionIssued",
                                !.session = Some(Unwrap(out.res.val).session),
                                !.signature = Some(Unwrap(out.res.val).signature),
                                !.duration = Some(Unwrap(out.res.val).duration)]
                       ELSE Failed(q, out.res.err)]
    /\ UNCHANGED <<clock, pureVars>>

\* the call of new_session: CreateUser line 65, Login line 100
IssueSession(r, from, db_ok) ==
    /\ req[r].pc = from
    /\ LET uid == Unwrap(req[r].user_id)
           out == new_session(state, sessions, uid, Utc_now, db_ok)
           q == [Called(req[r], "create_session") EXCEPT
                    !.prior = {s.id : s \in {t \in sessions : t.user_id = uid}}]
       IN /\ sessions' = out.sessions
          /\ state' = out.state
          /\ req' = [req EXCEPT ![r] =
                       IF out.res.ok
                       THEN [Passed(q, "create_session") EXCEPT
                                !.pc = "SessionIssued",
                                !.session = Some(Unwrap(out.res.val).session),
                                !.signature = Some(Unwrap(out.res.val).signature),
                                !.duration = Some(Unwrap(out.res.val).duration)]
                       ELSE Failed(q, out.res.err)]
    /\ UNCHANGED <<users, clock, pureVars>>

RegisterNewSession(r, db_ok) ==
    /\ req[r].kind = "Register"
    /\ IssueSession(r, "Stored", db_ok)

\* the response reporting the time it was built as the expiry
CreateUserOk_no_duration(q, now) ==
    [status |-> "201 Created",
     user_id |-> Unwrap(q.user_id),
     username |-> q.username,
     session_signature |-> Unwrap(q.signature),
     session_id |-> Unwrap(q.session).id,
     session_expires |-> now]

\* CreateUser::process_request, lines 67-76
CreateUserOk(q, now) ==
    [status |-> "201 Created",
     user_id |-> Unwrap(q.user_id),
     username |-> q.username,
     session_signature |-> Unwrap(q.signature),
     session_id |-> Unwrap(q.session).id,
     session_expires |-> now + Unwrap(q.duration)]

RegisterRespond(r) ==
    /\ req[r].pc = "SessionIssued" /\ req[r].kind = "Register"
    /\ req' = [req EXCEPT ![r].pc = "Responded",
                          ![r].response = Some(CreateUserOk(req[r], Utc_now)),
                          ![r].responded_at = Some(Utc_now)]
    /\ UNCHANGED <<state, users, sessions, clock, pureVars>>

\* check_password with the result of verify_password dropped
check_password_unchecked(q, stored) ==
    LET parsed == deserialize_hash(stored)
    IN IF ~parsed.ok THEN Failed(q, parsed.err)
       ELSE LET q1 == Passed(q, "deserialize_hash")
                checked == verify_password(q1.password, Unwrap(parsed.val))
            IN IF checked.ok
               THEN [Passed(q1, "verify_password") EXCEPT !.pc = "Verified"]
               ELSE [q1 EXCEPT !.pc = "Verified"]

\* check_password verifying the handle in place of the password
check_password_swapped(q, stored) ==
    LET parsed == deserialize_hash(stored)
    IN IF ~parsed.ok THEN Failed(q, parsed.err)
       ELSE LET q1 == Passed(q, "deserialize_hash")
                checked == verify_password(q1.username, Unwrap(parsed.val))
            IN IF ~checked.ok THEN Failed(q1, checked.err)
               ELSE [Passed(q1, "verify_password") EXCEPT !.pc = "Verified"]

\* Login::process_request, lines 94-96
check_password(q, stored) ==
    LET parsed == deserialize_hash(stored)
    IN IF ~parsed.ok THEN Failed(q, parsed.err)
       ELSE LET q1 == Passed(q, "deserialize_hash")
                checked == verify_password(q1.password, Unwrap(parsed.val))
            IN IF ~checked.ok THEN Failed(q1, checked.err)
               ELSE [Passed(q1, "verify_password") EXCEPT !.pc = "Verified"]

\* Login::process_request, lines 93-96: the lookup, then the local check of
\* the password against the record it returned.
LoginGetHash(r, db_ok) ==
    /\ req[r].pc = "Received" /\ req[r].kind = "Login"
    /\ LET h == get_password_hash(users, req[r].username, db_ok)
           q == Called(req[r], "get_password_hash")
       IN req' = [req EXCEPT ![r] =
                    IF h.ok
                    THEN check_password([Passed(q, "get_password_hash") EXCEPT
                                            !.hash = h.val], Unwrap(h.val))
                    ELSE Failed(q, h.err)]
    /\ UNCHANGED <<state, users, sessions, clock, pureVars>>

\* Login::process_request, line 98
LoginFindUser(r, db_ok) ==
    /\ req[r].pc = "Verified" /\ req[r].kind = "Login"
    /\ LET found == user_find(users, req[r].username, db_ok)
           q == Called(req[r], "find_user")
       IN req' = [req EXCEPT ![r] =
                    IF found.ok
                    THEN [Passed(q, "find_user") EXCEPT
                             !.pc = "Found",
                             !.user = found.val,
                             !.user_id = Some(Unwrap(found.val).id)]
                    ELSE Failed(q, found.err)]
    /\ UNCHANGED <<state, users, sessions, clock, pureVars>>

\* Login::process_request, line 100
LoginNewSession(r, db_ok) ==
    /\ req[r].kind = "Login"
    /\ IssueSession(r, "Found", db_ok)

\* the response filling display_name from the handle
LoginOk_handle_as_name(q, now) ==
    [status |-> "200 OK",
     session_id |-> Unwrap(q.session).id,
     session_expires |-> now + Unwrap(q.duration),
     session_signature |-> Unwrap(q.signature),
     display_name |-> Some(q.username),
     email |-> Unwrap(q.user).email,
     profile_image |-> None,
     user_id |-> Unwrap(q.user).id]

\* Login::process_request, lines 102-113
LoginOk(q, now) ==
    [status |-> "200 OK",
     session_id |-> Unwrap(q.session).id,
     session_expires |-> now + Unwrap(q.duration),
     session_signature |-> Unwrap(q.signature),
     display_name |-> Unwrap(q.user).display_name,
     email |-> Unwrap(q.user).email,
     profile_image |-> None,
     user_id |-> Unwrap(q.user).id]

LoginRespond(r) ==
    /\ req[r].pc = "SessionIssued" /\ req[r].kind = "Login"
    /\ req' = [req EXCEPT ![r].pc = "Responded",
                          ![r].response = Some(LoginOk(req[r], Utc_now)),
                          ![r].responded_at = Some(Utc_now)]
    /\ UNCHANGED <<state, users, sessions, clock, pureVars>>

\* the wall clock advances between any two steps
Tick ==
    /\ clock < MaxClock
    /\ clock' = clock + 1
    /\ UNCHANGED <<state, users, sessions, req, pureVars>>

\* ------------------------------------------------------------ domain/post.rs
\* A string is a sequence of characters; a character occupies 1..3 bytes.
Chars == {"a", "e-acute", "euro", " "}
Utf8Len(c) == CASE c = "e-acute" -> 2 [] c = "euro" -> 3 [] OTHER -> 1
chars_count(s) == Len(s)
RECURSIVE byte_len(_)
byte_len(s) == IF s = <<>> THEN 0 ELSE Utf8Len(Head(s)) + byte_len(Tail(s))

\* the constructor measuring the string in bytes
nutype_new_bytes(raw_string, max_len) ==
    IF byte_len(raw_string) > max_len THEN Err("TooLong") ELSE Ok(raw_string)

\* the constructor letting one character too many through
nutype_new_lenient(raw_string, max_len) ==
    IF chars_count(raw_string) > max_len + 1 THEN Err("TooLong") ELSE Ok(raw_string)

\* the constructor rejecting a string of exactly max_len characters
nutype_new_strict(raw_string, max_len) ==
    IF chars_count(raw_string) >= max_len THEN Err("TooLong") ELSE Ok(raw_string)

\* the constructor nutype derives: no sanitizer is declared, max_len validates
nutype_new(raw_string, max_len) ==
    LET sanitized == raw_string
    IN IF chars_count(sanitized) > max_len
       THEN Err("TooLong")
       ELSE Ok(sanitized)

HeadlineMaxLen == 30
Headline_MAX_CHARS == 30
MessageMaxLen == 100
Message_MAX_CHARS == 100

Headline_new(raw_string) == nutype_new(raw_string, HeadlineMaxLen)
Message_new(raw_string) == nutype_new(raw_string, MessageMaxLen)

TextKinds == {"Headline", "Message"}
MAX_CHARS(kind) == IF kind = "Headline" THEN Headline_MAX_CHARS ELSE Message_MAX_CHARS
Pending == [ok |-> FALSE, val |-> <<>>, err |-> "pending"]

Rep(c, n) == [i \in 1..n |-> c]
Inputs ==
    {Rep(c, n) : c \in Chars, n \in 0..MaxInputLen}
    \cup {<<" ">> \o Rep(c, n) \o <<" ">> : c \in Chars \ {" "}, n \in 0..(MaxInputLen - 2)}
    \cup {<<"a">> \o Rep(c, n) : c \in Chars \ {"a"}, n \in 0..(MaxInputLen - 1)}

Construct ==
    /\ constructed = Pending
    /\ constructed' = IF text_kind = "Headline" THEN Headline_new(raw)
                                                  ELSE Message_new(raw)
    /\ UNCHANGED <<authVars, text_kind, raw, publicVars, postVars>>

\* ------------------------------------------------------------ to_public
\* uchat_domain::user::DisplayName, a bounded text like Headline
DisplayNameMaxLen == 30
DisplayName_new(raw_string) == nutype_new(raw_string, DisplayNameMaxLen)

\* Option::and_then(|name| DisplayName::new(name).ok())
validated_name(display_name) ==
    IF display_name = None THEN None
    ELSE LET made == DisplayName_new(Unwrap(display_name))
         IN IF made.ok THEN Some(Unwrap(made.val)) ELSE None

\* to_public passing the stored name on without validating it
to_public_unvalidated(user) ==
    Ok([id |-> user.id,
        display_name |-> user.display_name,
        handle |-> user.handle,
        profile_image |-> None,
        created_at |-> user.created_at,
        am_following |-> FALSE])

\* to_public, lines 17-27
to_public(user) ==
    Ok([id |-> user.id,
        display_name |-> validated_name(user.display_name),
        handle |-> user.handle,
        profile_image |-> None,
        created_at |-> user.created_at,
        am_following |-> FALSE])

Names == {Rep(c, n) : c \in {"a", "euro"}, n \in 0..MaxNameLen}
UserRows ==
    [id : 1..MaxReqs,
     handle : Handles,
     display_name : {None} \cup {Some(n) : n \in Names},
     email : {None, Some("alice@example.org")},
     password_hash : {Unwrap(hash_password("correct-horse", FreshSalt(1), TRUE).val)},
     created_at : 0..MaxClock]

PublicIdle ==
    /\ user_in = [id |-> 1, handle |-> "alice", display_name |-> None, email |-> None,
                  password_hash |-> <<>>, created_at |-> 0]
    /\ profile_out = None

ToPublic ==
    /\ profile_out = None
    /\ profile_out' = Some(to_public(user_in))
    /\ UNCHANGED <<authVars, textVars, user_in, postVars>>

\* ------------------------------------------------------------ elements/post.rs
\* PublicPost: its id and, standing for the rest of its fields, liked and
\* content.
PostIds == 1..MaxPostId
PublicPosts == [id : PostIds, liked : BOOLEAN, content : 1..MaxBatch]

\* IndexMap<PostId, PublicPost>: a sequence of entries in insertion order
\* with no key twice.
IndexOf(m, k) ==
    IF \E i \in 1..Len(m) : m[i].key = k
    THEN CHOOSE i \in 1..Len(m) : m[i].key = k
    ELSE 0
im_get(m, k) == IF IndexOf(m, k) = 0 THEN None ELSE Some(m[IndexOf(m, k)].value)
\* insert: a present key keeps its place and takes the new value
im_insert(m, k, v) ==
    IF IndexOf(m, k) = 0
    THEN Append(m, [key |-> k, value |-> v])
    ELSE [m EXCEPT ![IndexOf(m, k)].value = v]
\* remove is swap_remove: the last entry moves into the freed place
im_remove(m, k) ==
    LET i == IndexOf(m, k)
        n == Len(m)
    IN IF i = 0 THEN m
       ELSE SubSeq([m EXCEPT ![i] = m[n]], 1, n - 1)
im_clear(m) == <<>>

\* the closures handed to update
UpdateFns == {"like", "toggle", "retarget"}
ApplyFn(f, post) ==
    CASE f = "like" -> [post EXCEPT !.liked = TRUE]
      [] f = "toggle" -> [post EXCEPT !.liked = ~@]
      [] f = "retarget" -> [post EXCEPT !.id = (@ % MaxPostId) + 1]

\* update reporting success whether or not the id is present
PostManager_update_always_true(m, id, f) ==
    LET i == IndexOf(m, id)
    IN IF i # 0
       THEN [ret |-> TRUE, posts |-> [m EXCEPT ![i].value = ApplyFn(f, @)], calls |-> 1]
       ELSE [ret |-> TRUE, posts |-> m, calls |-> 0]

\* PostManager::update, lines 22-32
PostManager_update(m, id, f) ==
    LET i == IndexOf(m, id)
    IN IF i # 0
       THEN [ret |-> TRUE, posts |-> [m EXCEPT ![i].value = ApplyFn(f, @)], calls |-> 1]
       ELSE [ret |-> FALSE, posts |-> m, calls |-> 0]

RECURSIVE insert_all(_, _)
insert_all(m, input) ==
    IF input = <<>> THEN m
    ELSE insert_all(im_insert(m, Head(input).id, Head(input)), Tail(input))

\* populate without the clear of line 38
PostManager_populate_keeps(m, input) == insert_all(m, input)

\* PostManager::populate, lines 34-42
PostManager_populate(m, input) == insert_all(im_clear(m), input)

\* PostManager::clear, lines 44-46
PostManager_clear(m) == im_clear(m)

\* PostManager::get, lines 48-50
PostManager_get(m, post_id) == im_get(m, post_id)

\* remove dropping the newest entry in place of the one asked for
PostManager_remove_newest(m, post_id) ==
    IF IndexOf(m, post_id) = 0 THEN m ELSE SubSeq(m, 1, Len(m) - 1)

\* PostManager::remove, lines 52-54
PostManager_remove(m, post_id) == im_remove(m, post_id)

RECURSIVE SeqsUpTo(_, _)
SeqsUpTo(S, n) ==
    IF n = 0 THEN {<<>>}
    ELSE LET shorter == SeqsUpTo(S, n - 1)
         IN shorter \cup {Append(q, x) : q \in {t \in shorter : Len(t) = n - 1}, x \in S}
\* The inputs of populate: every sequence of ids, each post carrying content
\* that tells it from every other post of the batch.
Batches ==
    {[i \in 1..Len(ids) |-> [id |-> ids[i], liked |-> FALSE, content |-> i]] :
        ids \in SeqsUpTo(PostIds, MaxBatch)}

PostsIdle == posts = <<>> /\ last = [op |-> "new"] /\ tampered = FALSE

\* Once an update function has changed a post's id nothing more is claimed
\* of the map, and the run is followed no further.
Update(id, f) ==
    /\ ~tampered
    /\ LET out == PostManager_update(posts, id, f)
       IN /\ posts' = out.posts
          /\ last' = [op |-> "update", id |-> id, f |-> f, ret |-> out.ret,
                      calls |-> out.calls]
          /\ tampered' = \E i \in 1..Len(out.posts) :
                             out.posts[i].value.id # out.posts[i].key
    /\ UNCHANGED <<authVars, textVars, publicVars>>

Populate(input) ==
    /\ ~tampered
    /\ posts' = PostManager_populate(posts, input)
    /\ last' = [op |-> "populate", input |-> input]
    /\ UNCHANGED <<authVars, textVars, publicVars, tampered>>

Clear ==
    /\ ~tampered
    /\ posts' = PostManager_clear(posts)
    /\ last' = [op |-> "clear"]
    /\ UNCHANGED <<authVars, textVars, publicVars, tampered>>

Get(post_id) ==
    /\ ~tampered
    /\ last' = [op |-> "get", id |-> post_id, ret |-> PostManager_get(posts, post_id)]
    /\ UNCHANGED <<authVars, textVars, publicVars, posts, tampered>>

Remove(post_id) ==
    /\ ~tampered
    /\ posts' = PostManager_remove(posts, post_id)
    /\ last' = [op |-> "remove", id |-> post_id, had |-> IndexOf(posts, post_id) # 0]
    /\ UNCHANGED <<authVars, textVars, publicVars, tampered>>

\* ------------------------------------------------------------ specifications
\* AppState as built at process start
InitialAppState == [signing_keys |-> [private |-> 91, public |-> 256 - 91], rng |-> 7]

AuthInit ==
    /\ state = InitialAppState
    /\ users = {}
    /\ sessions = {}
    /\ clock = 0
    /\ req = [r \in Reqs |-> IdleReq]

TextIdle == text_kind = "Headline" /\ raw = <<>> /\ constructed = Pending

Init ==
    /\ AuthInit
    /\ TextIdle
    /\ PublicIdle
    /\ PostsIdle

Next ==
    \/ \E r \in Reqs, k \in {"Register", "Login"}, h \in Handles, p \in Passwords :
          Receive(r, k, h, p)
    \/ \E r \in Reqs, hash_ok \in BOOLEAN, db_ok \in BOOLEAN :
          RegisterCreateUser(r, FreshSalt(r), hash_ok, db_ok)
    \/ \E r \in Reqs, ok \in BOOLEAN : RegisterNewSession(r, ok)
    \/ \E r \in Reqs : RegisterRespond(r)
    \/ \E r \in Reqs, ok \in BOOLEAN : LoginGetHash(r, ok)
    \/ \E r \in Reqs, ok \in BOOLEAN : LoginFindUser(r, ok)
    \/ \E r \in Reqs, ok \in BOOLEAN : LoginNewSession(r, ok)
    \/ \E r \in Reqs : LoginRespond(r)
    \/ Tick

Spec == Init /\ [][Next]_vars

\* the statements of one request's process_request
Step(r) ==
    \/ \E hash_ok \in BOOLEAN, db_ok \in BOOLEAN :
          RegisterCreateUser(r, FreshSalt(r), hash_ok, db_ok)
    \/ \E ok \in BOOLEAN : RegisterNewSession(r, ok)
    \/ RegisterRespond(r)
    \/ \E ok \in BOOLEAN : LoginGetHash(r, ok)
    \/ \E ok \in BOOLEAN : LoginFindUser(r, ok)
    \/ \E ok \in BOOLEAN : LoginNewSession(r, ok)
    \/ LoginRespond(r)

\* every storage call returns and the runtime keeps running the requests in
\* flight: some statement of some request is executed whenever one can be
FairSpec == Init /\ [][Next]_vars /\ WF_vars(\E r \in Reqs : Step(r))

TextInit ==
    /\ AuthInit
    /\ text_kind \in TextKinds /\ raw \in Inputs /\ constructed = Pending
    /\ PublicIdle
    /\ PostsIdle

TextNext == Construct

SpecText == TextInit /\ [][TextNext]_vars

PublicInit ==
    /\ AuthInit
    /\ TextIdle
    /\ user_in \in UserRows /\ profile_out = None
    /\ PostsIdle

PublicNext == ToPublic

SpecPublic == PublicInit /\ [][PublicNext]_vars

PostsNext ==
    \/ \E id \in PostIds, f \in UpdateFns : Update(id, f)
    \/ \E input \in Batches : Populate(input)
    \/ Clear
    \/ \E id \in PostIds : Get(id)
    \/ \E id \in PostIds : Remove(id)

SpecPosts == Init /\ [][PostsNext]_vars

\* ------------------------------------------------------------ claims
Terminal(q) == q.pc \in {"Responded", "Errored"}
StoredHashOf(handle) == Unwrap(deserialize_hash(UserOf(users, handle).password_hash).val)

\* C1: create_session is invoked for a request only after that request's
\* earlier steps all succeeded (Register: hash_password and create_user;
\* Login: get_password_hash, deserialize_hash and verify_password, so the
\* supplied password matches the stored hash); a request that errored holds
\* no session and no signature, and every stored session belongs to a request
\* that passed those steps.
C1_SessionOnlyAfterSuccess ==
    /\ \A r \in Reqs :
          LET q == req[r]
          IN /\ q.calls.create_session > 0 =>
                  IF q.kind = "Register"
                  THEN /\ {"hash_password", "create_user"} \subseteq q.passed
                       /\ \E u \in users : u.id = Unwrap(q.user_id)
                                           /\ u.handle = q.username
                  ELSE /\ {"get_password_hash", "deserialize_hash",
                           "verify_password"} \subseteq q.passed
                       /\ HandleTaken(users, q.username)
                       /\ verify_password(q.password, StoredHashOf(q.username)).ok
             /\ q.pc = "Errored" =>
                  /\ q.session = None /\ q.signature = None /\ q.response = None
                  /\ "create_session" \notin q.passed
    /\ Cardinality(sessions) = Cardinality({r \in Reqs : IsSome(req[r].session)})

C1_Witness ==
    \E r1, r2 \in Reqs :
        /\ req[r1].kind = "Login" /\ req[r1].pc = "Errored"
        /\ req[r1].err = "InvalidCredentials"
        /\ req[r2].pc = "Responded" /\ req[r2].calls.create_session = 1

\* C2: a Login for a handle that does not exist ends with the same error
\* value as a Login with a wrong password, the InvalidCredentials outcome of
\* verify_password.
WrongPasswordError ==
    LET stored == hash_password("correct-horse", FreshSalt(1), TRUE)
    IN verify_password("hunter2", Unwrap(deserialize_hash(Unwrap(stored.val)).val)).err

C2_IdenticalLoginError ==
    \A r \in Reqs :
        LET q == req[r]
        IN (/\ q.kind = "Login" /\ q.pc = "Errored"
            /\ q.calls.get_password_hash = 1
            /\ "get_password_hash" \notin q.passed
            /\ q.err # "StorageError")
           => q.err = WrongPasswordError

\* C3: a Login received after a Register with the same handle and password
\* responded fails only on a storage error, and when it responds its session
\* identifier is none of those issued to that user before, the one issued at
\* registration included.
C3_LoginAfterRegister ==
    \A g, l \in Reqs :
        LET rg == req[g]
            lg == req[l]
        IN (/\ rg.kind = "Register" /\ rg.pc = "Responded"
            /\ lg.kind = "Login" /\ g \in lg.after
            /\ lg.username = rg.username /\ lg.password = rg.password)
           => /\ lg.pc = "Errored" => lg.err = "StorageError"
              /\ lg.pc = "Responded" =>
                    /\ Unwrap(lg.response).session_id \notin lg.prior
                    /\ Unwrap(rg.response).session_id \in lg.prior
                    /\ Unwrap(lg.response).user_id = Unwrap(rg.response).user_id

C3_Witness ==
    \E g, l \in Reqs :
        /\ req[g].kind = "Register" /\ req[g].pc = "Responded"
        /\ req[l].kind = "Login" /\ req[l].pc = "Responded" /\ g \in req[l].after
        /\ req[l].username = req[g].username /\ req[l].password = req[g].password
        /\ req[l].prior # {}

\* C4: no two successful new_session calls return the same session
\* identifier, whichever users they are for.
C4_SessionIdsUnique ==
    /\ \A r1, r2 \in Reqs :
          (r1 # r2 /\ IsSome(req[r1].session) /\ IsSome(req[r2].session))
          => Unwrap(req[r1].session).id # Unwrap(req[r2].session).id
    /\ \A s, t \in sessions : s.id = t.id => s = t

C4_Witness ==
    \E r1, r2 \in Reqs :
        /\ r1 # r2 /\ IsSome(req[r1].session) /\ IsSome(req[r2].session)
        /\ Unwrap(req[r1].session).user_id = Unwrap(req[r2].session).user_id

\* C5: the signature new_session returns is the base64 encoding of the
\* process key's signature over the bytes of the returned session's
\* identifier; decoded, it verifies against that identifier and the public
\* key and against no other issued session's identifier.
C5_SignatureBindsSession ==
    \A r \in Reqs :
        IsSome(req[r].signature) =>
            LET id == Unwrap(req[r].session).id
                sig == Unwrap(req[r].signature)
                pub == state.signing_keys.public
                decoded == decode_base64(sig)
            IN /\ sig = encode_base64(sign(state.signing_keys, state.rng, as_bytes(id)))
               /\ signature_verify(pub, as_bytes(id), decoded)
               /\ \A s \in sessions :
                     s.id # id => ~signature_verify(pub, as_bytes(s.id), decoded)
               /\ req[r].pc = "Responded" =>
                     /\ Unwrap(req[r].response).session_signature = sig
                     /\ Unwrap(req[r].response).session_id = id

C5_Witness ==
    \E r \in Reqs :
        /\ req[r].pc = "Responded"
        /\ \E s \in sessions : s.id # Unwrap(req[r].response).session_id

\* C6: constructing a Headline (maximum 30) or a Message (maximum 100) from
\* a string of at most that many characters succeeds, and the value holds
\* the input unchanged.
ClaimedMax(kind) == IF kind = "Headline" THEN 30 ELSE 100

C6_ShortInputAccepted ==
    (constructed # Pending /\ chars_count(raw) <= ClaimedMax(text_kind))
    => /\ constructed.ok
       /\ Unwrap(constructed.val) = raw
       /\ chars_count(Unwrap(constructed.val)) = chars_count(raw)

C6_Witness ==
    /\ constructed.ok /\ text_kind = "Headline"
    /\ chars_count(raw) = 30 /\ byte_len(raw) > 30
    /\ Head(raw) = " "

\* C7: constructing from a string of more characters than the maximum fails
\* with TooLong and yields no value, so every constructed Headline has at
\* most 30 characters and every constructed Message at most 100.
C7_LongInputRejected ==
    /\ (constructed # Pending /\ chars_count(raw) > ClaimedMax(text_kind))
       => constructed = Err("TooLong")
    /\ constructed.ok => chars_count(Unwrap(constructed.val)) <= ClaimedMax(text_kind)

C7_Witness ==
    /\ constructed = Err("TooLong") /\ text_kind = "Headline"
    /\ chars_count(raw) = 31 /\ byte_len(raw) = 31

\* C8: the exposed MAX_CHARS constant is the bound the constructor enforces:
\* a string of exactly MAX_CHARS characters is accepted and one of
\* MAX_CHARS + 1 characters is rejected, for Headline (30) and Message (100).
C8_MaxCharsIsTheBound ==
    /\ Headline_MAX_CHARS = 30 /\ Message_MAX_CHARS = 100
    /\ (constructed # Pending /\ chars_count(raw) = MAX_CHARS(text_kind))
       => constructed.ok
    /\ (constructed # Pending /\ chars_count(raw) = MAX_CHARS(text_kind) + 1)
       => constructed = Err("TooLong")

C8_Witness ==
    /\ text_kind = "Message" /\ constructed.ok
    /\ chars_count(raw) = Message_MAX_CHARS

\* C9 as claimed: session_expires is the session's creation time plus three
\* weeks, the expiry storage recorded, however the clock moves.
C9_ExpiresIsStoredExpiry ==
    \A r \in Reqs :
        req[r].pc = "Responded" =>
            /\ Unwrap(req[r].response).session_expires
                  = Unwrap(req[r].session).created_at + Duration_weeks(3)
            /\ \E s \in sessions :
                  /\ s.id = Unwrap(req[r].response).session_id
                  /\ s.expires_at = Unwrap(req[r].response).session_expires

\* C9 amended: session_expires is the clock reading taken when the response
\* is built plus three weeks; it exceeds the expiry storage recorded by the
\* time the clock moved since create_session, and equals it only when the
\* clock reads the same at both points.
C9_ExpiresIsResponseTimePlusDuration ==
    \A r \in Reqs :
        req[r].pc = "Responded" =>
            LET resp == Unwrap(req[r].response)
                made == Unwrap(req[r].session)
                at == Unwrap(req[r].responded_at)
            IN /\ resp.session_expires = at + Duration_weeks(3)
               /\ made.expires_at = made.created_at + Duration_weeks(3)
               /\ resp.session_expires - made.expires_at = at - made.created_at
               /\ \E s \in sessions : s.id = resp.session_id /\ s = made

C9_Witness ==
    \E r \in Reqs :
        /\ req[r].pc = "Responded"
        /\ Unwrap(req[r].responded_at) > Unwrap(req[r].session).created_at

\* C10: when storage rejects the handle in create_user the Register ends
\* with RegistrationFailed, the step adds no user and no session, and the
\* request, which called create_user once and create_session never, stays so.
C10_Step ==
    \A r \in Reqs :
        /\ (/\ req[r].pc = "Received" /\ req[r].kind = "Register"
            /\ req'[r].calls.create_user = 1
            /\ HandleTaken(users, req[r].username)
            /\ req'[r].err # "StorageError")
           => /\ req'[r].pc = "Errored" /\ req'[r].err = "RegistrationFailed"
              /\ users' = users /\ sessions' = sessions
        /\ req'[r].err = "RegistrationFailed"
           => /\ req'[r].pc = "Errored" /\ req'[r].kind = "Register"
              /\ req'[r].calls.create_user = 1
              /\ req'[r].calls.create_session = 0
              /\ req'[r].session = None /\ req'[r].user_id = None
              /\ \E u \in users' : u.handle = req'[r].username

C10_RejectedRegister == [][C10_Step]_vars

C10_Witness ==
    \E r \in Reqs :
        /\ req[r].kind = "Register" /\ req[r].err = "RegistrationFailed"
        /\ Cardinality(users) = 1

\* C11: when create_session fails, new_session returns storage's error as it
\* is, with no session and no signature and storage left as it was, and the
\* request ends with that error; within one request no storage operation is
\* invoked more than once.
StorageOps == {"create_user", "get_password_hash", "find_user", "create_session"}

C11_NoRetry ==
    /\ \A r \in Reqs : \A op \in StorageOps : req[r].calls[op] <= 1
    /\ \A u \in users :
          LET direct == session_new(sessions, u.id, Duration_weeks(3), "{}", clock, FALSE)
              out == new_session(state, sessions, u.id, clock, FALSE)
          IN /\ ~direct.res.ok
             /\ out.res = direct.res
             /\ out.sessions = sessions
    /\ \A r \in Reqs :
          (req[r].calls.create_session = 1 /\ "create_session" \notin req[r].passed)
          => /\ req[r].pc = "Errored" /\ req[r].err = "StorageError"
             /\ req[r].session = None /\ req[r].signature = None
    /\ \A s \in sessions :
          \E r \in Reqs : IsSome(req[r].session) /\ Unwrap(req[r].session) = s

C11_Witness ==
    \E r \in Reqs :
        /\ req[r].calls.create_session = 1 /\ req[r].pc = "Errored"
        /\ req[r].kind = "Login" /\ req[r].calls.find_user = 1

\* C13: no request changes the process-wide signing keys or random source:
\* after any number of requests AppState is as it was at process start.
C13_AppStateFrame ==
    /\ state = InitialAppState
    /\ \A u \in users : \A ok \in BOOLEAN :
          new_session(state, sessions, u.id, clock, ok).state = state

C13_Witness ==
    /\ \A r \in Reqs : req[r].pc = "Responded"
    /\ \E r \in Reqs : req[r].kind = "Login"
    /\ state.rng = InitialAppState.rng

\* C12: under any interleaving of concurrent Registers, at most one Register
\* for a handle reaches Responded, storage holds no two users with the same
\* handle (or the same id), and the session a Register returns is owned by
\* the user that same request created.
C12_ConcurrentRegister ==
    /\ \A r1, r2 \in Reqs :
          (/\ r1 # r2
           /\ req[r1].kind = "Register" /\ req[r2].kind = "Register"
           /\ req[r1].username = req[r2].username)
          => /\ ~(req[r1].pc = "Responded" /\ req[r2].pc = "Responded")
             /\ ~("create_user" \in req[r1].passed /\ "create_user" \in req[r2].passed)
    /\ \A u, v \in users : (u.handle = v.handle \/ u.id = v.id) => u = v
    /\ \A r \in Reqs :
          (req[r].kind = "Register" /\ req[r].pc = "Responded") =>
              LET resp == Unwrap(req[r].response)
              IN /\ \E u \in users : /\ u.id = resp.user_id
                                     /\ u.handle = req[r].username
                                     /\ u.password_hash = Unwrap(req[r].password_hash)
                 /\ \E s \in sessions : s.id = resp.session_id
                                        /\ s.user_id = resp.user_id

C12_Witness ==
    \E r1, r2 \in Reqs :
        /\ req[r1].kind = "Register" /\ req[r2].kind = "Register"
        /\ req[r1].username = req[r2].username
        /\ req[r1].pc = "Responded"
        /\ req[r2].err = "RegistrationFailed"
        /\ r1 \notin req[r2].after

\* C14: every request, once received, eventually reaches Responded or
\* Errored; it only ever moves forward through its steps and stays in the
\* terminal state it reached.
Rank(q) ==
    CASE q.pc = "Idle" -> 0
      [] q.pc = "Received" -> 1
      [] q.pc \in {"Stored", "Verified"} -> 2
      [] q.pc = "Found" -> 3
      [] q.pc = "SessionIssued" -> 4
      [] q.pc \in {"Responded", "Errored"} -> 5

C14_Forward ==
    \A r \in Reqs :
        /\ req'[r].pc # req[r].pc => Rank(req'[r]) > Rank(req[r])
        /\ Terminal(req[r]) => req'[r] = req[r]
        /\ req[r].pc # "Idle" =>
              /\ req'[r].kind = req[r].kind
              /\ req[r].passed \subseteq req'[r].passed

\* Terminal states are kept and Idle is never re-entered, so "every received
\* request eventually is terminal" is: from some point on none is in flight.
C14_Termination ==
    /\ <>[](\A r \in Reqs : req[r].pc = "Idle" \/ Terminal(req[r]))
    /\ [][C14_Forward]_vars

C14_Witness ==
    \E r1, r2 \in Reqs :
        /\ req[r1].pc = "Responded" /\ req[r1].kind = "Login"
        /\ req[r2].pc = "Errored" /\ req[r2].kind = "Register"

HalfRegistered(q) ==
    /\ q.kind = "Register" /\ q.pc = "Errored"
    /\ "create_user" \in q.passed

C16_RegisterNotAtomic ==
    \A r \in Reqs :
        HalfRegistered(req[r]) =>
            /\ req[r].session = None /\ req[r].response = None
            /\ req[r].err = "StorageError"
            /\ \E u \in users : /\ u.id = Unwrap(req[r].user_id)
                                /\ u.handle = req[r].username
                                /\ u.password_hash = Unwrap(req[r].password_hash)
            /\ \A s \in sessions : s.user_id = Unwrap(req[r].user_id) =>
                  \E l \in Reqs : l # r /\ req[l].session = Some(s)
            /\ user_new(users, Unwrap(req[r].password_hash), req[r].username,
                        clock, TRUE).res = Err("RegistrationFailed")
            /\ \A g \in Reqs :
                  (g # r /\ req[g].kind = "Register"
                   /\ req[g].username = req[r].username)
                  => "create_user" \notin req[g].passed
            /\ \A l \in Reqs :
                  (/\ req[l].kind = "Login" /\ req[l].pc = "Received"
                   /\ req[l].username = req[r].username
                   /\ req[l].password = req[r].password)
                  => LET h == get_password_hash(users, req[l].username, TRUE)
                     IN /\ h.ok
                        /\ check_password(req[l], Unwrap(h.val)).pc = "Verified"

C16_Witness ==
    \E r, l \in Reqs :
        /\ HalfRegistered(req[r])
        /\ req[l].kind = "Login" /\ req[l].pc = "Responded"
        /\ req[l].username = req[r].username /\ req[l].password = req[r].password

\* C17: to_public never returns an error: it copies id, handle and
\* created_at, sets profile_image to None and am_following to false, keeps
\* the display name exactly when it is present and passes DisplayName
\* validation and sets it to None otherwise; the result has no field for a
\* password hash or a session.
C17_ToPublic ==
    profile_out # None =>
        LET out == Unwrap(profile_out)
            p == Unwrap(out.val)
            name == user_in.display_name
        IN /\ out.ok /\ out.err = ""
           /\ p.id = user_in.id /\ p.handle = user_in.handle
           /\ p.created_at = user_in.created_at
           /\ p.profile_image = None /\ p.am_following = FALSE
           /\ (name # None /\ chars_count(Unwrap(name)) <= DisplayNameMaxLen)
                 => p.display_name = name
           /\ (name = None \/ ~DisplayName_new(Unwrap(name)).ok)
                 => p.display_name = None
           /\ DOMAIN p = {"id", "display_name", "handle", "profile_image",
                          "created_at", "am_following"}

C17_Witness ==
    /\ profile_out # None
    /\ user_in.display_name # None
    /\ chars_count(Unwrap(user_in.display_name)) = DisplayNameMaxLen + 1
    /\ Unwrap(Unwrap(profile_out).val).display_name = None

\* C18: update(id, f) returns true exactly when id is a key of posts before
\* the call; then f is applied exactly once to the post stored under id and
\* every other entry and the order of the entries are unchanged; when id is
\* absent it returns false, f is never called and posts is unchanged.
C18_Update ==
    last'.op = "update" =>
        LET id == last'.id
            present == \E i \in 1..Len(posts) : posts[i].key = id
        IN /\ last'.ret = present
           /\ present =>
                /\ last'.calls = 1
                /\ Len(posts') = Len(posts)
                /\ \A i \in 1..Len(posts) :
                      /\ posts'[i].key = posts[i].key
                      /\ posts'[i].value =
                            IF posts[i].key = id
                            THEN ApplyFn(last'.f, posts[i].value)
                            ELSE posts[i].value
           /\ ~present => last'.calls = 0 /\ posts' = posts

C18_UpdateFrame == [][C18_Update]_vars

C18_Witness ==
    /\ last.op = "update" /\ last.ret /\ last.f = "toggle"
    /\ Len(posts) = MaxPostId
    /\ posts[2].key = last.id /\ posts[2].value.liked

\* C19: after populate(posts) the map holds exactly one entry per distinct
\* post id of the input and nothing from before the call; for an id that
\* occurs several times the post of its last occurrence is stored, at the
\* position of its first occurrence; populate with an empty input leaves the
\* map empty, as clear does.
FirstOccurrences(input) ==
    {i \in 1..Len(input) : \A j \in 1..(i - 1) : input[j].id # input[i].id}
LastOccurrence(input, id) ==
    CHOOSE i \in 1..Len(input) :
        /\ input[i].id = id
        /\ \A j \in (i + 1)..Len(input) : input[j].id # id

C19_Populate ==
    last'.op = "populate" =>
        LET input == last'.input
            firsts == FirstOccurrences(input)
        IN /\ Len(posts') = Cardinality(firsts)
           /\ \A i \in firsts :
                LET k == Cardinality({j \in firsts : j <= i})
                IN /\ posts'[k].key = input[i].id
                   /\ posts'[k].value = input[LastOccurrence(input, input[i].id)]
           /\ input = <<>> => posts' = <<>> /\ posts' = PostManager_clear(posts)

C19_PopulateReplaces == [][C19_Populate]_vars

C19_Witness ==
    /\ last.op = "populate" /\ Len(last.input) = 3
    /\ last.input[1].id = last.input[3].id
    /\ last.input[1] # last.input[3]
    /\ last.input[2].id # last.input[1].id
    /\ posts = <<[key |-> last.input[1].id, value |-> last.input[3]],
                 [key |-> last.input[2].id, value |-> last.input[2]]>>

\* C20: after any sequence of populate, clear, remove and update with an
\* update function that keeps the post's id, every entry is stored under the
\* key equal to the stored post's id, so get(id) returns nothing or a post
\* whose id is id; remove(id) of an absent id changes nothing, and after
\* remove(id) get(id) returns nothing.
KeysMatch ==
    /\ \A i \in 1..Len(posts) : posts[i].key = posts[i].value.id
    /\ \A id \in PostIds :
          LET got == PostManager_get(posts, id)
          IN got = None \/ Unwrap(got).id = id

C20_Remove ==
    last'.op = "remove" =>
        /\ (\A i \in 1..Len(posts) : posts[i].key # last'.id) => posts' = posts
        /\ PostManager_get(posts', last'.id) = None

C20_KeyIsPostId == [](~tampered => KeysMatch) /\ [][C20_Remove]_vars

C20_Witness ==
    /\ ~tampered /\ last.op = "remove" /\ last.had
    /\ posts # <<>> /\ KeysMatch
    /\ PostManager_get(posts, last.id) = None

====
